---------------------------- MODULE Spec2Model ----------------------------
(***************************************************************************)
(* A model of the KMS scan-out surface of smithay's DRM backend            *)
(* (src/backend/drm/surface/mod.rs).                                       *)
(*                                                                         *)
(* The facade DrmSurface dispatches every operation to one of two engines  *)
(* (atomic.rs, legacy.rs); plane claims go to the device's                 *)
(* PlaneClaimStorage (device/mod.rs).  The facade, ensure_legacy_planes,   *)
(* the damage-clip helper and the format enumerator are translated from    *)
(* surface/mod.rs.  The two engines and the claim storage live in other    *)
(* files of the crate: their definitions follow the design document        *)
(* (sections 4.1, 4.3, 4.4) and are marked as such where they are defined. *)
(*                                                                         *)
(* Two specifications share the variables:                                 *)
(*   SpecPipeline  one surface, its pending/current snapshots, the kernel's*)
(*                 CRTC state and the session;                             *)
(*   SpecClaims    two surfaces of one device and the plane claim registry.*)
(* Each leaves the other's variables unchanged; Spec is their product.     *)
(***************************************************************************)
EXTENDS Integers, Sequences, FiniteSets, TLC

VARIABLES
    \* ---- pipeline state of one surface --------------------------------
    internal,   \* DrmSurfaceInternal: "Atomic" | "Legacy", fixed at creation
    pending,    \* engine snapshot: [mode, connectors], the next commit target
    current,    \* engine snapshot: [mode, connectors], what was last committed
    kernel,     \* the kernel's state of the CRTC: [mode, connectors]
    active,     \* the session holds DRM master (not paused)
    \* ---- observation of the last facade call --------------------------
    op,         \* name of the last operation
    arg,        \* its arguments
    ret,        \* its result: Ok or an error
    calls,      \* the kernel calls it issued, in order
    prev,       \* the snapshots before it: [pending, current]
    hist,       \* the operation before the last one, where it is recorded
    driver,     \* what the driver reports of a plane: formats, capability
    \* ---- the device's plane claim registry and its two surfaces --------
    alive,      \* the surfaces that exist
    storage,    \* PlaneClaimStorage: plane -> [crtc, count]
    tokens,     \* live PlaneClaim tokens: how many of each kind
    lock,       \* the registry's mutex: "free" or the surface holding it
    pc,         \* where each surface's thread is in claim_plane
    call,       \* per surface, the last claim_plane call and its lookup
    result,     \* per surface, what that call returned: "-", "Some", "None"
    \* ---- damage clip blobs -------------------------------------------
    blobs,      \* the kernel's property blobs: blob id -> its rectangles
    inner,      \* Arc<PlaneDamageInner>: blob id -> number of handles
    destroyed   \* blob id -> destroy calls issued for the blob of that id

pipeVars ==
    <<internal, pending, current, kernel, active, op, arg, ret, calls, prev, hist,
      driver>>

claimVars == <<alive, storage, tokens, lock, pc, call, result>>

damageVars == <<blobs, inner, destroyed>>

vars == <<internal, pending, current, kernel, active, op, arg, ret, calls, prev,
          hist, driver, alive, storage, tokens, lock, pc, call, result, blobs, inner,
          destroyed>>

-----------------------------------------------------------------------------
(* Hardware of the modelled device: one CRTC, three connectors, two modes,   *)
(* three planes.                                                             *)

Modes == {"m1", "m2"}

Connectors == {"c1", "c2", "c3"}

Planes == {"primary", "overlay", "cursor"}

\* Modes a connector advertises.
connector_modes(c) ==
    CASE c = "c1" -> {"m1", "m2"}
      [] c = "c2" -> {"m1"}
      [] c = "c3" -> {"m1", "m2"}

\* Whether some encoder of the connector can be driven by the surface's CRTC.
encoder_compatible(c) == c \in {"c1", "c2"}

\* The type property of a plane (super::plane_type).
plane_type(p) ==
    CASE p = "primary" -> "Primary"
      [] p = "overlay" -> "Overlay"
      [] p = "cursor"  -> "Cursor"

Snapshots == [mode : Modes, connectors : SUBSET Connectors]

\* A configuration the kernel can be scanning out: every attached connector
\* is reachable from the CRTC and is driven in one of its modes.
KernelStates ==
    {s \in Snapshots :
        \A c \in s.connectors : encoder_compatible(c) /\ s.mode \in connector_modes(c)}

-----------------------------------------------------------------------------
(* Inputs of test_state / commit / page_flip: sequences of PlaneState.      *)
(* Option<PlaneConfig> is a sequence of length 0 (None) or 1 (Some).        *)
(* Coordinates are abstracted to one axis; f64 values are counted in        *)
(* halves, i32 values in units.                                             *)

MaxPlaneStates == 2

Transforms == {"Normal", "Flipped180"}

\* A full-surface configuration: no offset, no crop, no scale, no transform.
FullConfig ==
    [src_loc |-> 0, src_size |-> 2, dst_loc |-> 0, dst_size |-> 1,
     transform |-> "Normal", fb |-> "fb"]

\* The full-surface configuration in two sizes, and every way of leaving it
\* in one field: an offset on the CRTC, a crop offset, a fractional source
\* size, a scaled destination, a transform.
PlaneConfigs ==
    { FullConfig,
      [FullConfig EXCEPT !.src_size = 4, !.dst_size = 2],
      [FullConfig EXCEPT !.dst_loc = 1],
      [FullConfig EXCEPT !.src_loc = 1],
      [FullConfig EXCEPT !.src_size = 3],
      [FullConfig EXCEPT !.dst_size = 2],
      [FullConfig EXCEPT !.transform = "Flipped180"] }

PlaneStates ==
    [handle : {"primary"}, config : {<<>>} \cup {<<c>> : c \in PlaneConfigs}]
    \cup { [handle |-> "overlay", config |-> <<FullConfig>>],
           [handle |-> "cursor", config |-> <<>>] }

\* A further plane state that may follow the first one of a sequence.
MorePlaneStates == { [handle |-> "overlay", config |-> <<FullConfig>>] }

RECURSIVE PlaneTails(_)
PlaneTails(n) ==
    IF n = 0 THEN {<<>>}
    ELSE LET shorter == PlaneTails(n - 1)
         IN  shorter \cup {<<x>> \o t : x \in MorePlaneStates, t \in shorter}

PlaneInputs ==
    {<<>>} \cup
    {<<s>> \o t : s \in PlaneStates, t \in PlaneTails(MaxPlaneStates - 1)}

-----------------------------------------------------------------------------
(* Results of the facade's calls: Result<(), Error> as a tuple, the error    *)
(* kind first and the plane it names (if any) second.                        *)

Ok == <<"Ok">>

Err(kind) == <<kind>>

ErrPlane(kind, plane) == <<kind, plane>>

\* Answers the kernel may give to a modesetting or flipping ioctl.
KernelAnswers == {"Ok", "EBUSY", "EINVAL"}

\* The error an ioctl failure is reported as: EBUSY is the retry-later case,
\* anything else a plain access error.
ioctl_error(answer) ==
    IF answer = "EBUSY" THEN Err("AccessRetryLater") ELSE Err("Access")

-----------------------------------------------------------------------------
(* The engines (surface/atomic.rs and surface/legacy.rs), after sections     *)
(* 4.3 and 4.4 of the design document.                                       *)

\* Validation of one connector against the CRTC and a mode.
check_connector(c, mode) ==
    IF ~encoder_compatible(c) THEN Err("IncompatibleEncoder")
    ELSE IF mode \notin connector_modes(c) THEN Err("ModeUnsupported")
    ELSE Ok

\* The first error among the connectors of a list, in list order.
RECURSIVE check_connectors(_, _)
check_connectors(list, mode) ==
    IF list = <<>> THEN Ok
    ELSE IF check_connector(Head(list), mode) # Ok
         THEN check_connector(Head(list), mode)
         ELSE check_connectors(Tail(list), mode)

Range(list) == {list[i] : i \in DOMAIN list}

Atomic_add_connector(connector) ==
    LET e == check_connector(connector, pending.mode)
    IN  /\ ret' = e
        /\ pending' = IF e = Ok
                        THEN [pending EXCEPT !.connectors = @ \cup {connector}]
                        ELSE pending
        /\ calls' = <<>>
        /\ UNCHANGED <<current, kernel>>

Atomic_remove_connector(connector) ==
    /\ ret' = Ok
    /\ pending' = [pending EXCEPT !.connectors = @ \ {connector}]
    /\ calls' = <<>>
    /\ UNCHANGED <<current, kernel>>

\* A set_connectors that keeps the connectors it accepted before the first
\* one it refuses.
Atomic_set_connectors_partial(connectors) ==
    LET e == check_connectors(connectors, pending.mode)
        accepted == {connectors[i] : i \in
                        {j \in DOMAIN connectors :
                            \A k \in 1..j : check_connector(connectors[k], pending.mode) = Ok}}
    IN  /\ ret' = e
        /\ pending' = [pending EXCEPT !.connectors =
                           IF e = Ok THEN Range(connectors) ELSE @ \cup accepted]
        /\ calls' = <<>>
        /\ UNCHANGED <<current, kernel>>

\* A set_connectors that stores the connectors in which the list and the
\* pending set differ, the ones it has to validate, instead of the list.
Atomic_set_connectors_stores_difference(connectors) ==
    LET e == check_connectors(connectors, pending.mode)
        new == Range(connectors)
    IN  /\ ret' = e
        /\ pending' = IF e = Ok
                        THEN [pending EXCEPT !.connectors = (@ \ new) \cup (new \ @)]
                        ELSE pending
        /\ calls' = <<>>
        /\ UNCHANGED <<current, kernel>>

Atomic_set_connectors(connectors) ==
    LET e == check_connectors(connectors, pending.mode)
    IN  /\ ret' = e
        /\ pending' = IF e = Ok
                        THEN [pending EXCEPT !.connectors = Range(connectors)]
                        ELSE pending
        /\ calls' = <<>>
        /\ UNCHANGED <<current, kernel>>

\* A use_mode that checks nothing.
Atomic_use_mode_unchecked(mode) ==
    /\ ret' = Ok
    /\ pending' = [pending EXCEPT !.mode = mode]
    /\ calls' = <<>>
    /\ UNCHANGED <<current, kernel>>

\* A use_mode that stores the mode before it checks it.
Atomic_use_mode_stores_first(mode) ==
    LET ok == \A c \in pending.connectors : mode \in connector_modes(c)
    IN  /\ ret' = IF ok THEN Ok ELSE Err("ModeUnsupported")
        /\ pending' = [pending EXCEPT !.mode = mode]
        /\ calls' = <<>>
        /\ UNCHANGED <<current, kernel>>

Atomic_use_mode(mode) ==
    LET ok == \A c \in pending.connectors : mode \in connector_modes(c)
    IN  /\ ret' = IF ok THEN Ok ELSE Err("ModeUnsupported")
        /\ pending' = IF ok THEN [pending EXCEPT !.mode = mode] ELSE pending
        /\ calls' = <<>>
        /\ UNCHANGED <<current, kernel>>

Atomic_commit_pending == pending # current

\* TEST_ONLY request; without ALLOW_MODESET the kernel refuses every request
\* that changes the mode or the connectors it is driving.
Atomic_test_state(planes, allow_modeset) ==
    /\ calls' = <<"AtomicTest">>
    /\ \/ ~active /\ ret' = Err("DeviceInactive")
       \/ active /\ ~allow_modeset /\ pending # kernel /\ ret' = Err("TestFailed")
       \/ active /\ (allow_modeset \/ pending = kernel)
                 /\ ret' \in {Ok, Err("TestFailed")}
    /\ UNCHANGED <<pending, current, kernel>>

\* The request of a commit (ALLOW_MODESET set) or of a page flip (not set).
Atomic_submit(allow_modeset) ==
    /\ calls' = <<"AtomicCommit">>
    /\ \/ ~active /\ ret' = Err("DeviceInactive")
                  /\ UNCHANGED <<pending, current, kernel>>
       \/ active /\ ~allow_modeset /\ pending # kernel
                 /\ ret' = ioctl_error("EINVAL")
                 /\ UNCHANGED <<pending, current, kernel>>
       \/ active /\ (allow_modeset \/ pending = kernel)
                 /\ \E answer \in KernelAnswers :
                      IF answer = "Ok"
                      THEN /\ ret' = Ok
                           /\ current' = pending
                           /\ kernel' = pending
                           /\ UNCHANGED pending
                      ELSE /\ ret' = ioctl_error(answer)
                           /\ UNCHANGED <<pending, current, kernel>>

Atomic_commit(planes, event) == Atomic_submit(TRUE)

Atomic_page_flip(planes, event) == Atomic_submit(FALSE)

Atomic_clear_plane(plane) ==
    /\ calls' = <<"AtomicCommit">>
    /\ \/ ~active /\ ret' = Err("DeviceInactive")
       \/ active /\ ret' \in {Ok, ioctl_error("EINVAL")}
    /\ UNCHANGED <<pending, current, kernel>>

Atomic_reset_state ==
    /\ calls' = <<"GetProperties">>
    /\ \/ ~active /\ ret' = Err("DeviceInactive")
                  /\ UNCHANGED <<pending, current, kernel>>
       \/ active /\ ret' = Ok
                 /\ current' = kernel
                 /\ pending' = kernel
                 /\ UNCHANGED kernel

Legacy_add_connector(connector) == Atomic_add_connector(connector)

Legacy_remove_connector(connector) == Atomic_remove_connector(connector)

Legacy_set_connectors(connectors) == Atomic_set_connectors(connectors)

Legacy_use_mode(mode) == Atomic_use_mode(mode)

Legacy_commit_pending == pending # current

\* SetCrtc(crtc, fb, 0, 0, connectors, mode); a vblank request if event.
\* before: the kernel calls the facade issued already.
Legacy_commit(before, fb, event) ==
    \/ ~active /\ ret' = Err("DeviceInactive")
               /\ calls' = before \o <<"SetCrtc">>
               /\ UNCHANGED <<pending, current, kernel>>
    \/ active /\ \E answer \in KernelAnswers :
                   IF answer = "Ok"
                   THEN /\ ret' = Ok
                        /\ current' = pending
                        /\ kernel' = pending
                        /\ calls' = before \o <<"SetCrtc">> \o
                                    (IF event THEN <<"VblankRequest">> ELSE <<>>)
                        /\ UNCHANGED pending
                   ELSE /\ ret' = ioctl_error(answer)
                        /\ calls' = before \o <<"SetCrtc">>
                        /\ UNCHANGED <<pending, current, kernel>>

\* A real modeset against the given mode: the kernel changes, the snapshots
\* do not.
Legacy_test_buffer(before, fb, mode) ==
    /\ calls' = before \o <<"SetCrtc">>
    /\ \/ ~active /\ ret' = Err("DeviceInactive") /\ UNCHANGED kernel
       \/ active /\ \E answer \in KernelAnswers :
                      IF answer = "Ok"
                      THEN /\ ret' = Ok
                           /\ kernel' = [mode |-> mode,
                                         connectors |-> pending.connectors]
                      ELSE /\ ret' = ioctl_error(answer)
                           /\ UNCHANGED kernel
    /\ UNCHANGED <<pending, current>>

Legacy_page_flip(before, fb, event) ==
    /\ calls' = before \o <<"PageFlip">>
    /\ \/ ~active /\ ret' = Err("DeviceInactive")
       \/ active /\ \E answer \in KernelAnswers :
                      ret' = IF answer = "Ok" THEN Ok ELSE ioctl_error(answer)
    /\ UNCHANGED <<pending, current, kernel>>

Legacy_reset_state ==
    /\ calls' = <<"GetCrtc">>
    /\ \/ ~active /\ ret' = Err("DeviceInactive")
                  /\ UNCHANGED <<pending, current, kernel>>
       \/ active /\ ret' = Ok
                 /\ current' = kernel
                 /\ pending' = kernel
                 /\ UNCHANGED kernel

-----------------------------------------------------------------------------
(* The facade (surface/mod.rs).                                               *)

\* How the device answers the plane-type query of ensure_legacy_planes.
DeviceReplies == {"answers", "fails"}

\* i32 -> f64 (f64 values are counted in halves).
to_f64(i) == 2 * i

\* Size<f64, Buffer>::to_logical(1.0, Normal).to_physical(1.0): scale 1 and
\* the identity transform leave the size as it is.
to_logical_to_physical(size) == size

\* An ensure_legacy_planes without the check for crop and scale.
ensure_legacy_planes_allows_scale(dev, planes) ==
    IF planes = <<>>
    THEN [res |-> Err("NoPlane"), fb |-> "none", calls |-> <<>>]
    ELSE LET state == Head(planes)
             q     == <<"GetPlaneType">>
         IN  IF dev = "fails"
             THEN [res |-> Err("Access"), fb |-> "none", calls |-> q]
             ELSE IF plane_type(state.handle) # "Primary"
             THEN [res |-> ErrPlane("NonPrimaryPlane", state.handle),
                   fb |-> "none", calls |-> q]
             ELSE IF state.config = <<>>
             THEN [res |-> ErrPlane("NoFramebuffer", state.handle),
                   fb |-> "none", calls |-> q]
             ELSE LET config == state.config[1]
                      unsupported ==
                          [res |-> ErrPlane("UnsupportedPlaneConfiguration",
                                            state.handle),
                           fb |-> "none", calls |-> q]
                  IN  IF config.dst_loc # 0 THEN unsupported
                      ELSE IF config.transform # "Normal" THEN unsupported
                      ELSE [res |-> Ok, fb |-> config.fb, calls |-> q]

\* Result<framebuffer::Handle, Error>, with the kernel queries made on the
\* way.  Only the first plane state of the sequence is looked at.
ensure_legacy_planes(dev, planes) ==
    IF planes = <<>>
    THEN [res |-> Err("NoPlane"), fb |-> "none", calls |-> <<>>]
    ELSE LET state == Head(planes)
             q     == <<"GetPlaneType">>
         IN  IF dev = "fails"
             THEN [res |-> Err("Access"), fb |-> "none", calls |-> q]
             ELSE IF plane_type(state.handle) # "Primary"
             THEN [res |-> ErrPlane("NonPrimaryPlane", state.handle),
                   fb |-> "none", calls |-> q]
             ELSE IF state.config = <<>>
             THEN [res |-> ErrPlane("NoFramebuffer", state.handle),
                   fb |-> "none", calls |-> q]
             ELSE LET config == state.config[1]
                      unsupported ==
                          [res |-> ErrPlane("UnsupportedPlaneConfiguration",
                                            state.handle),
                           fb |-> "none", calls |-> q]
                  IN  IF config.dst_loc # 0 THEN unsupported
                      ELSE IF \/ config.src_loc # 0
                              \/ to_logical_to_physical(config.src_size)
                                   # to_f64(config.dst_size)
                      THEN unsupported
                      ELSE IF config.transform # "Normal" THEN unsupported
                      ELSE [res |-> Ok, fb |-> config.fb, calls |-> q]

\* No record of the operation before the last one is kept.
NoHistory == [op |-> "-", arg |-> <<>>, ret |-> <<>>, pending |-> <<>>]

\* The last operation becomes the one before the last.
Older ==
    hist' = IF hist = NoHistory THEN hist
            ELSE [op |-> op, arg |-> arg, ret |-> ret, pending |-> prev.pending]

\* What every call records about itself.
Noted(name, arguments) ==
    /\ op' = name
    /\ arg' = arguments
    /\ prev' = [pending |-> pending, current |-> current]
    /\ Older
    /\ UNCHANGED <<internal, active, driver>>
    /\ UNCHANGED claimVars

\* A call of the facade: it creates and drops no damage clips.
Called(name, arguments) ==
    /\ Noted(name, arguments)
    /\ UNCHANGED damageVars

\* An early return of the facade itself: no engine is entered.
Return(value, issued) ==
    /\ ret' = value
    /\ calls' = issued
    /\ UNCHANGED <<pending, current, kernel>>

add_connector(connector) ==
    /\ Called("add_connector", <<connector>>)
    /\ \/ internal = "Atomic" /\ Atomic_add_connector(connector)
       \/ internal = "Legacy" /\ Legacy_add_connector(connector)

\* A remove_connector whose legacy arm was copied from add_connector.
remove_connector_adds_on_legacy(connector) ==
    /\ Called("remove_connector", <<connector>>)
    /\ \/ internal = "Atomic" /\ Atomic_remove_connector(connector)
       \/ internal = "Legacy" /\ Legacy_add_connector(connector)

remove_connector(connector) ==
    /\ Called("remove_connector", <<connector>>)
    /\ \/ internal = "Atomic" /\ Atomic_remove_connector(connector)
       \/ internal = "Legacy" /\ Legacy_remove_connector(connector)

set_connectors(connectors) ==
    /\ Called("set_connectors", <<connectors>>)
    /\ \/ internal = "Atomic" /\ Atomic_set_connectors(connectors)
       \/ internal = "Legacy" /\ Legacy_set_connectors(connectors)

use_mode(mode) ==
    /\ Called("use_mode", <<mode>>)
    /\ \/ internal = "Atomic" /\ Atomic_use_mode(mode)
       \/ internal = "Legacy" /\ Legacy_use_mode(mode)

current_connectors == current.connectors

pending_connectors == pending.connectors

current_mode == current.mode

pending_mode == pending.mode

\* A clear_plane whose legacy arm names the surface's own primary plane in
\* its error.
clear_plane_names_own_primary(plane) ==
    /\ Called("clear_plane", <<plane>>)
    /\ \/ internal = "Atomic" /\ Atomic_clear_plane(plane)
       \/ internal = "Legacy" /\ Return(ErrPlane("NonPrimaryPlane", "primary"), <<>>)

clear_plane(plane) ==
    /\ Called("clear_plane", <<plane>>)
    /\ \/ internal = "Atomic" /\ Atomic_clear_plane(plane)
       \/ internal = "Legacy" /\ Return(ErrPlane("NonPrimaryPlane", plane), <<>>)

\* A commit_pending whose legacy arm is a stub.
commit_pending_legacy_stub ==
    CASE internal = "Atomic" -> Atomic_commit_pending
      [] internal = "Legacy" -> FALSE

commit_pending ==
    CASE internal = "Atomic" -> Atomic_commit_pending
      [] internal = "Legacy" -> Legacy_commit_pending

\* A test_state whose legacy arm probes with a modeset whether or not one
\* is allowed.
test_state_always_probes(planes, allow_modeset) ==
    /\ Called("test_state", <<planes, allow_modeset>>)
    /\ \/ internal = "Atomic" /\ Atomic_test_state(planes, allow_modeset)
       \/ /\ internal = "Legacy"
          /\ \E dev \in DeviceReplies :
               LET fb == ensure_legacy_planes(dev, planes)
               IN  IF fb.res # Ok THEN Return(fb.res, fb.calls)
                   ELSE Legacy_test_buffer(fb.calls, fb.fb, pending_mode)

\* A test_state whose atomic arm always allows a modeset.
test_state_drops_allow_modeset(planes, allow_modeset) ==
    /\ Called("test_state", <<planes, allow_modeset>>)
    /\ \/ internal = "Atomic" /\ Atomic_test_state(planes, TRUE)
       \/ /\ internal = "Legacy"
          /\ \E dev \in DeviceReplies :
               LET fb == ensure_legacy_planes(dev, planes)
               IN  IF fb.res # Ok THEN Return(fb.res, fb.calls)
                   ELSE IF allow_modeset
                   THEN Legacy_test_buffer(fb.calls, fb.fb, pending_mode)
                   ELSE Return(Ok, fb.calls)

test_state(planes, allow_modeset) ==
    /\ Called("test_state", <<planes, allow_modeset>>)
    /\ \/ internal = "Atomic" /\ Atomic_test_state(planes, allow_modeset)
       \/ /\ internal = "Legacy"
          /\ \E dev \in DeviceReplies :
               LET fb == ensure_legacy_planes(dev, planes)
               IN  IF fb.res # Ok THEN Return(fb.res, fb.calls)
                   ELSE IF allow_modeset
                   THEN Legacy_test_buffer(fb.calls, fb.fb, pending_mode)
                   ELSE Return(Ok, fb.calls)

\* A commit whose legacy arm was copied from page_flip.
commit_flips_on_legacy(planes, event) ==
    /\ Called("commit", <<planes, event>>)
    /\ \/ internal = "Atomic" /\ Atomic_commit(planes, event)
       \/ /\ internal = "Legacy"
          /\ \E dev \in DeviceReplies :
               LET fb == ensure_legacy_planes(dev, planes)
               IN  IF fb.res # Ok THEN Return(fb.res, fb.calls)
                   ELSE Legacy_page_flip(fb.calls, fb.fb, event)

\* A commit whose legacy arm looks at the result of ensure_legacy_planes only
\* after the modeset.
commit_validates_late(planes, event) ==
    /\ Called("commit", <<planes, event>>)
    /\ \/ internal = "Atomic" /\ Atomic_commit(planes, event)
       \/ /\ internal = "Legacy"
          /\ \E dev \in DeviceReplies :
               LET fb == ensure_legacy_planes(dev, planes)
               IN  IF fb.res # Ok
                   THEN /\ active
                        /\ ret' = fb.res
                        /\ calls' = fb.calls \o <<"SetCrtc">>
                        /\ current' = pending
                        /\ kernel' = pending
                        /\ UNCHANGED pending
                   ELSE Legacy_commit(fb.calls, fb.fb, event)

commit(planes, event) ==
    /\ Called("commit", <<planes, event>>)
    /\ \/ internal = "Atomic" /\ Atomic_commit(planes, event)
       \/ /\ internal = "Legacy"
          /\ \E dev \in DeviceReplies :
               LET fb == ensure_legacy_planes(dev, planes)
               IN  IF fb.res # Ok THEN Return(fb.res, fb.calls)
                   ELSE Legacy_commit(fb.calls, fb.fb, event)

page_flip(planes, event) ==
    /\ Called("page_flip", <<planes, event>>)
    /\ \/ internal = "Atomic" /\ Atomic_page_flip(planes, event)
       \/ /\ internal = "Legacy"
          /\ \E dev \in DeviceReplies :
               LET fb == ensure_legacy_planes(dev, planes)
               IN  IF fb.res # Ok THEN Return(fb.res, fb.calls)
                   ELSE Legacy_page_flip(fb.calls, fb.fb, event)

\* A reset_state whose legacy arm refills the current snapshot only.
reset_state_keeps_pending_on_legacy ==
    /\ Called("reset_state", <<>>)
    /\ \/ internal = "Atomic" /\ Atomic_reset_state
       \/ /\ internal = "Legacy"
          /\ calls' = <<"GetCrtc">>
          /\ \/ ~active /\ ret' = Err("DeviceInactive")
                        /\ UNCHANGED <<pending, current, kernel>>
             \/ active /\ ret' = Ok
                       /\ current' = kernel
                       /\ UNCHANGED <<pending, kernel>>

\* A reset_state that returns without asking the engine.
reset_state_returns_early ==
    /\ Called("reset_state", <<>>)
    /\ Return(Ok, <<>>)

reset_state ==
    /\ Called("reset_state", <<>>)
    /\ \/ internal = "Atomic" /\ Atomic_reset_state
       \/ internal = "Legacy" /\ Legacy_reset_state

-----------------------------------------------------------------------------
(* The session (backend/session/mod.rs, Event) and the other DRM master.     *)

\* What a step of the environment records.
Observed(name) ==
    /\ op' = name
    /\ arg' = <<>>
    /\ ret' = Ok
    /\ calls' = <<>>
    /\ prev' = [pending |-> pending, current |-> current]
    /\ Older
    /\ UNCHANGED <<internal, driver>>
    /\ UNCHANGED claimVars
    /\ UNCHANGED damageVars

PauseSession ==
    /\ active
    /\ active' = FALSE
    /\ Observed("PauseSession")
    /\ UNCHANGED <<pending, current, kernel>>

ActivateSession ==
    /\ ~active
    /\ active' = TRUE
    /\ Observed("ActivateSession")
    /\ UNCHANGED <<pending, current, kernel>>

\* While the session is paused another master may reprogram the CRTC.
ForeignModeset ==
    /\ ~active
    /\ \E s \in KernelStates : s # kernel /\ kernel' = s
    /\ Observed("ForeignModeset")
    /\ UNCHANGED <<pending, current, active>>

-----------------------------------------------------------------------------
MaxConnectorList == 2

RECURSIVE ConnectorLists(_)
ConnectorLists(n) ==
    IF n = 0 THEN {<<>>}
    ELSE LET shorter == ConnectorLists(n - 1)
         IN  shorter \cup {<<c>> \o l : c \in Connectors, l \in shorter}

(* The plane claim registry of a device (device::PlaneClaimStorage, after     *)
(* section 4.1 of the design document) and the two surfaces that share it.   *)

Surfaces == {"A", "B"}

\* DrmSurface.crtc
crtc(s) == IF s = "A" THEN "crtcA" ELSE "crtcB"

\* DrmSurface.primary
primary(s) == IF s = "A" THEN "planeA" ELSE "planeB"

Crtcs == {crtc(s) : s \in Surfaces}

\* The primary plane of each CRTC and one plane either CRTC can use.
DevicePlanes == {primary(s) : s \in Surfaces} \cup {"planeC"}

\* Most live tokens at a time.
MaxTokens == 3

\* A PlaneClaim: the (plane, crtc) it holds in the registry, and who obtained
\* it by asking for which plane.
TokenKinds ==
    [plane : DevicePlanes, crtc : Crtcs, by : Surfaces, asked : DevicePlanes]

NoCall ==
    [asked |-> "-", plane |-> "-", crtc |-> "-", found |-> <<>>, raced |-> FALSE]

RECURSIVE Sum(_, _)
Sum(f, S) ==
    IF S = {} THEN 0
    ELSE LET x == CHOOSE y \in S : TRUE IN f[x] + Sum(f, S \ {x})

\* Live tokens that surface s obtained by claim_plane(plane).
Held(s, plane) ==
    Sum(tokens, {k \in TokenKinds : k.by = s /\ k.asked = plane})

\* Live tokens obtained by claim_plane(plane) on any surface.
Live(plane) == Sum(tokens, {k \in TokenKinds : k.asked = plane})

InFlight == {s \in Surfaces : pc[s] # "idle"}

\* The surface is created by the device: it is handed the CRTC, its primary
\* plane, the engine and a handle on the registry.
CreateSurface(s) ==
    /\ s \notin alive
    /\ alive' = alive \cup {s}
    /\ UNCHANGED <<storage, tokens, lock, pc, call, result>>
    /\ UNCHANGED pipeVars
    /\ UNCHANGED damageVars

\* The surface is dropped; its fields hold no PlaneClaim.
DropSurface(s) ==
    /\ s \in alive
    /\ pc[s] = "idle"
    /\ alive' = alive \ {s}
    /\ UNCHANGED <<storage, tokens, lock, pc, call, result>>
    /\ UNCHANGED pipeVars
    /\ UNCHANGED damageVars

\* What claim_plane hands to PlaneClaimStorage::claim.
Claiming(s, asked, plane, with_crtc) ==
    /\ s \in alive
    /\ pc[s] = "idle"
    /\ Sum(tokens, TokenKinds) + Cardinality(InFlight) < MaxTokens
    /\ pc' = [pc EXCEPT ![s] = "claim"]
    /\ call' = [call EXCEPT ![s] = [asked |-> asked, plane |-> plane,
                                    crtc |-> with_crtc, found |-> <<>>,
                                    raced |-> FALSE]]
    /\ result' = [result EXCEPT ![s] = "-"]
    /\ UNCHANGED <<alive, storage, tokens, lock>>
    /\ UNCHANGED pipeVars
    /\ UNCHANGED damageVars

\* A claim_plane that claims the surface's own primary plane, whatever plane
\* it was asked for.
claim_plane_claims_primary(s, plane) ==
    Claiming(s, plane, primary(s), crtc(s))

claim_plane(s, plane) == Claiming(s, plane, plane, crtc(s))

\* PlaneClaimStorage::claim, step 1: take the mutex.  raced notes whether
\* another surface's call was waiting for it at that moment.
Storage_lock(s) ==
    /\ pc[s] = "claim"
    /\ lock = "free"
    /\ lock' = s
    /\ pc' = [pc EXCEPT ![s] = "locked"]
    /\ call' = [call EXCEPT ![s].raced = InFlight # {s}]
    /\ UNCHANGED <<alive, storage, tokens, result>>
    /\ UNCHANGED pipeVars
    /\ UNCHANGED damageVars

\* Step 2: look the plane up.
Storage_lookup(s) ==
    /\ pc[s] = "locked"
    /\ call' = [call EXCEPT ![s].found =
                   IF call[s].plane \in DOMAIN storage
                   THEN <<storage[call[s].plane]>> ELSE <<>>]
    /\ pc' = [pc EXCEPT ![s] = "looked"]
    /\ UNCHANGED <<alive, storage, tokens, lock, result>>
    /\ UNCHANGED pipeVars
    /\ UNCHANGED damageVars

\* Step 3: no entry: insert with count 1; an entry of the same CRTC: count it
\* up; an entry of another CRTC: none.  The mutex is released on return.
Storage_update(s) ==
    /\ pc[s] = "looked"
    /\ LET c == call[s]
           granted == c.found = <<>> \/ c.found[1].crtc = c.crtc
           token == [plane |-> c.plane, crtc |-> c.crtc, by |-> s, asked |-> c.asked]
       IN  /\ storage' =
                 IF c.found = <<>>
                 THEN [q \in DOMAIN storage \cup {c.plane} |->
                          IF q = c.plane THEN [crtc |-> c.crtc, count |-> 1]
                          ELSE storage[q]]
                 ELSE IF c.found[1].crtc = c.crtc
                 THEN [q \in DOMAIN storage \cup {c.plane} |->
                          IF q = c.plane
                          THEN [crtc |-> c.crtc, count |-> c.found[1].count + 1]
                          ELSE storage[q]]
                 ELSE storage
           /\ tokens' = IF granted THEN [tokens EXCEPT ![token] = @ + 1] ELSE tokens
           /\ result' = [result EXCEPT ![s] = IF granted THEN "Some" ELSE "None"]
    /\ lock' = IF lock = s THEN "free" ELSE lock
    /\ pc' = [pc EXCEPT ![s] = "idle"]
    /\ UNCHANGED <<alive, call>>
    /\ UNCHANGED pipeVars
    /\ UNCHANGED damageVars

\* A token is dropped: under the mutex its entry is counted down, and removed
\* at zero.
PlaneClaim_drop(k) ==
    /\ tokens[k] > 0
    /\ lock = "free"
    /\ tokens' = [tokens EXCEPT ![k] = @ - 1]
    /\ storage' =
          IF k.plane \notin DOMAIN storage THEN storage
          ELSE IF storage[k.plane].count <= 1
          THEN [q \in DOMAIN storage \ {k.plane} |-> storage[q]]
          ELSE [storage EXCEPT ![k.plane].count = @ - 1]
    /\ UNCHANGED <<alive, lock, pc, call, result>>
    /\ UNCHANGED pipeVars
    /\ UNCHANGED damageVars

-----------------------------------------------------------------------------
(* Damage clips (PlaneDamageClips, PlaneDamageInner).  Rectangles have one   *)
(* axis, [loc, size]; the source rectangle has whole coordinates.            *)

MaxBlobs == 2

BlobIds == 1..MaxBlobs

MaxHandles == 2

i32_MAX == 2147483647

\* Lists of damage rectangles, in the coordinates of the destination: none,
\* one rectangle, two rectangles.
DamageLists ==
    { <<>>,
      <<[loc |-> 0, size |-> 1]>>,
      <<[loc |-> 0, size |-> 1], [loc |-> 1, size |-> 1]>> }

\* Source rectangles (buffer coordinates): the size of the destination, and
\* one and a half times its size with an offset.
SrcRects == { [loc |-> 0, size |-> 2], [loc |-> 1, size |-> 3] }

DstRects == { [loc |-> 0, size |-> 2] }

\* Errors of the create-blob ioctl.
SystemErrors == {"ENOMEM", "EINVAL"}

\* i32::saturating_add, for values that are not negative.
saturating_add(a, b) == IF a + b > i32_MAX THEN i32_MAX ELSE a + b

\* One damage rectangle as a drm_mode_rect: scaled by src.size / dst.size,
\* moved by src.loc, rounded outwards (to_i32_up: the start down, the end up).
drm_mode_rect(rect, src, dst) ==
    LET lo   == (rect.loc * src.size) \div dst.size + src.loc
        hi   == ((rect.loc + rect.size) * src.size + dst.size - 1) \div dst.size
                    + src.loc
    IN  [x1 |-> lo, x2 |-> saturating_add(lo, hi - lo)]

\* A from_damage without the test for an empty list of rectangles.
from_damage_without_empty_test(src, dst, damage) ==
    LET rects == [i \in DOMAIN damage |-> drm_mode_rect(damage[i], src, dst)]
    IN  /\ Noted("from_damage", <<src, dst, damage>>)
        /\ calls' = <<"CreatePropertyBlob">>
        /\ \/ \E id \in BlobIds \ DOMAIN blobs :
                /\ blobs' = [i \in DOMAIN blobs \cup {id} |->
                                IF i = id THEN rects ELSE blobs[i]]
                /\ inner' = [inner EXCEPT ![id] = 1]
                /\ destroyed' = [destroyed EXCEPT ![id] = 0]
                /\ ret' = <<"Ok", "Some", id>>
           \/ \E e \in SystemErrors :
                /\ ret' = <<"Err", e>>
                /\ UNCHANGED <<blobs, inner, destroyed>>
        /\ UNCHANGED <<pending, current, kernel>>

\* PlaneDamageClips::from_damage.  The kernel picks the id of a new blob.
from_damage(src, dst, damage) ==
    LET rects == [i \in DOMAIN damage |-> drm_mode_rect(damage[i], src, dst)]
    IN  /\ Noted("from_damage", <<src, dst, damage>>)
        /\ IF rects = <<>>
           THEN /\ ret' = <<"Ok", "None">>
                /\ calls' = <<>>
                /\ UNCHANGED <<blobs, inner, destroyed>>
           ELSE /\ calls' = <<"CreatePropertyBlob">>
                /\ \/ \E id \in BlobIds \ DOMAIN blobs :
                        /\ blobs' = [i \in DOMAIN blobs \cup {id} |->
                                        IF i = id THEN rects ELSE blobs[i]]
                        /\ inner' = [inner EXCEPT ![id] = 1]
                        /\ destroyed' = [destroyed EXCEPT ![id] = 0]
                        /\ ret' = <<"Ok", "Some", id>>
                   \/ \E e \in SystemErrors :
                        /\ ret' = <<"Err", e>>
                        /\ UNCHANGED <<blobs, inner, destroyed>>
        /\ UNCHANGED <<pending, current, kernel>>

\* Clone for PlaneDamageClips: one more handle on the same inner.
PlaneDamageClips_clone(id) ==
    /\ inner[id] > 0
    /\ inner[id] < MaxHandles
    /\ inner' = [inner EXCEPT ![id] = @ + 1]
    /\ Noted("clone", <<id>>)
    /\ ret' = Ok
    /\ calls' = <<>>
    /\ UNCHANGED <<blobs, destroyed, pending, current, kernel>>

\* A drop in which every handle destroys the blob, not the last one only.
PlaneDamageClips_drop_by_every_handle(id) ==
    /\ inner[id] > 0
    /\ inner' = [inner EXCEPT ![id] = @ - 1]
    /\ Noted("drop", <<id>>)
    /\ ret' = Ok
    /\ calls' = <<"DestroyPropertyBlob">>
    /\ destroyed' = [destroyed EXCEPT ![id] = @ + 1]
    /\ \/ blobs' = [i \in DOMAIN blobs \ {id} |-> blobs[i]]
       \/ UNCHANGED blobs
    /\ UNCHANGED <<pending, current, kernel>>

\* A handle is dropped; with the last one the inner is dropped, which
\* destroys the blob.  A failure of the destroy call is ignored.
PlaneDamageClips_drop(id) ==
    /\ inner[id] > 0
    /\ inner' = [inner EXCEPT ![id] = @ - 1]
    /\ Noted("drop", <<id>>)
    /\ ret' = Ok
    /\ IF inner[id] = 1
       THEN /\ calls' = <<"DestroyPropertyBlob">>
            /\ destroyed' = [destroyed EXCEPT ![id] = @ + 1]
            /\ \/ blobs' = [i \in DOMAIN blobs \ {id} |-> blobs[i]]
               \/ UNCHANGED blobs
       ELSE /\ calls' = <<>>
            /\ UNCHANGED <<blobs, destroyed>>
    /\ UNCHANGED <<pending, current, kernel>>

-----------------------------------------------------------------------------
(* Pixel formats of a plane (DrmSurface::supported_formats).                 *)

\* Format codes as the kernel reports them: two that are known fourcc codes
\* and one that is not.
RawCodes == {"AR24", "XR24", "junk"}

\* Fourcc::try_from(..).ok(): the code, or nothing for an unknown value.
Fourcc_try_from(raw) ==
    CASE raw = "AR24" -> <<"Argb8888">>
      [] raw = "XR24" -> <<"Xrgb8888">>
      [] OTHER        -> <<>>

\* Modifier::from(u64): every value converts, two of them to named variants.
Modifier_from(raw) ==
    CASE raw = "0"                -> "Linear"
      [] raw = "0xffffffffffffff" -> "Invalid"
      [] OTHER                    -> "Other"

\* The planes' format lists the driver may report: empty, one known code, two
\* known codes, an unknown code only, a known code next to an unknown one.
FormatLists ==
    { <<>>, <<"AR24">>, <<"AR24", "XR24">>, <<"junk">>, <<"XR24", "junk">> }

\* Answers to the AddFB2Modifiers capability query.
Capabilities == {"Ok1", "Ok0", "Err"}

\* The plane has no IN_FORMATS property, or its value is not a blob.
NoInFormats == [formats |-> <<>>, modifiers |-> <<>>, present |-> FALSE]

\* Number of bits in the format mask of a modifier entry.
MaskBits == 64

\* IN_FORMATS blobs: a format array and modifier entries, each with the
\* modifier, the set bits of its mask and the offset of bit 0 in the array.
InFormatsBlobs ==
    { NoInFormats,
      [formats |-> <<"AR24", "XR24">>, present |-> TRUE, modifiers |->
          <<[modifier |-> "0", formats |-> {0, 1}, offset |-> 0]>>],
      [formats |-> <<"AR24", "XR24">>, present |-> TRUE, modifiers |->
          <<[modifier |-> "tiled", formats |-> {0}, offset |-> 1],
            [modifier |-> "0", formats |-> {0}, offset |-> 0]>>],
      [formats |-> <<"junk", "XR24">>, present |-> TRUE, modifiers |->
          <<[modifier |-> "tiled", formats |-> {0, 1}, offset |-> 0]>>],
      [formats |-> <<"AR24">>, present |-> TRUE, modifiers |-> <<>>],
      [formats |-> <<"junk">>, present |-> TRUE, modifiers |->
          <<[modifier |-> "tiled", formats |-> {0}, offset |-> 0]>>],
      [formats |-> <<"AR24">>, present |-> TRUE, modifiers |->
          <<[modifier |-> "0xffffffffffffff", formats |-> {0}, offset |-> 0]>>] }

\* What the driver reports of the queried plane.
Drivers ==
    [formats : FormatLists, capability : Capabilities, in_formats : InFormatsBlobs]

DefaultDriver ==
    [formats |-> <<"AR24">>, capability |-> "Ok0", in_formats |-> NoInFormats]

\* The queries of supported_formats that can fail.
FormatQueries ==
    {"GetPlane", "GetProperties", "GetProperty", "GetPropertyBlob", "GetPlaneType"}

\* The format list with the unknown codes dropped, each without a modifier.
plane_formats(list) ==
    { [code |-> Fourcc_try_from(list[i])[1], modifier |-> "Invalid"] :
        i \in {k \in DOMAIN list : Fourcc_try_from(list[k]) # <<>>} }

\* The pairs decoded from the blob: for entry i and set bit j the code at
\* index j + offset of the format array, kept when it is a known code.
in_formats_pairs(blob) ==
    { [code |-> Fourcc_try_from(blob.formats[e[2] + blob.modifiers[e[1]].offset + 1])[1],
       modifier |-> Modifier_from(blob.modifiers[e[1]].modifier)] :
        e \in { <<i, j>> \in (DOMAIN blob.modifiers) \X (0 .. MaskBits - 1) :
                  /\ j \in blob.modifiers[i].formats
                  /\ Fourcc_try_from(blob.formats[j + blob.modifiers[i].offset + 1]) # <<>> } }

\* Whether the formats collected so far are repeated with the linear layout.
force_linear_always(plane) == TRUE

force_linear(plane) == plane_type(plane) = "Cursor"

with_linear(formats) ==
    formats \cup { [code |-> f.code, modifier |-> "Linear"] : f \in formats }

\* A default that is added to whatever was collected.
with_default_always(formats) ==
    formats \cup { [code |-> "Argb8888", modifier |-> "Invalid"] }

\* The set is never returned empty.
with_default(formats) ==
    IF formats = {} THEN { [code |-> "Argb8888", modifier |-> "Invalid"] }
    ELSE formats

\* The value returned and the queries issued, when the query `failing` (if
\* any) is answered with an error.
supported_formats_result(plane, failing) ==
    LET listed == plane_formats(driver.formats)
        Failed(issued) == [value |-> Err("Access"), issued |-> issued]
        Done(formats, issued) ==
            [value |-> <<"Ok", with_default(formats)>>, issued |-> issued]
    IN  IF failing = "GetPlane" THEN Failed(<<"GetPlane">>)
        ELSE IF driver.capability = "Ok1"
        THEN IF failing = "GetProperties"
             THEN Failed(<<"GetPlane", "GetCap", "GetProperties">>)
             ELSE IF ~driver.in_formats.present
             THEN Done(listed, <<"GetPlane", "GetCap", "GetProperties">>)
             ELSE IF failing = "GetProperty"
             THEN Failed(<<"GetPlane", "GetCap", "GetProperties", "GetProperty">>)
             ELSE IF failing = "GetPropertyBlob"
             THEN Failed(<<"GetPlane", "GetCap", "GetProperties", "GetProperty",
                           "GetPropertyBlob">>)
             ELSE Done(listed \cup in_formats_pairs(driver.in_formats),
                       <<"GetPlane", "GetCap", "GetProperties", "GetProperty",
                         "GetPropertyBlob">>)
        ELSE IF failing = "GetPlaneType"
        THEN Failed(<<"GetPlane", "GetCap", "GetPlaneType">>)
        ELSE IF force_linear(plane)
        THEN Done(with_linear(listed), <<"GetPlane", "GetCap", "GetPlaneType">>)
        ELSE Done(listed, <<"GetPlane", "GetCap", "GetPlaneType">>)

supported_formats(plane) ==
    \E failing \in FormatQueries \cup {"none"} :
        /\ Called("supported_formats", <<plane>>)
        /\ Return(supported_formats_result(plane, failing).value,
                  supported_formats_result(plane, failing).issued)

\* No damage clips exist.
InitDamage ==
    /\ blobs = <<>>
    /\ inner = [id \in BlobIds |-> 0]
    /\ destroyed = [id \in BlobIds |-> 0]

-----------------------------------------------------------------------------
InitSurface ==
    /\ internal \in {"Atomic", "Legacy"}
    /\ kernel \in KernelStates
    /\ current = kernel
    /\ pending = current
    /\ active = TRUE
    /\ op = "new"
    /\ arg = <<>>
    /\ ret = Ok
    /\ calls = <<>>
    /\ prev = [pending |-> pending, current |-> current]

InitPipeline == InitSurface /\ hist = NoHistory /\ driver = DefaultDriver

\* The device before any surface is created: nothing is claimed.
InitClaims ==
    /\ alive = {}
    /\ storage = <<>>
    /\ tokens = [k \in TokenKinds |-> 0]
    /\ lock = "free"
    /\ pc = [s \in Surfaces |-> "idle"]
    /\ call = [s \in Surfaces |-> NoCall]
    /\ result = [s \in Surfaces |-> "-"]

Init == InitPipeline /\ InitClaims /\ InitDamage

\* The plane sequences the pipeline is driven with: none, the full-surface
\* primary plane alone and followed by an overlay, a primary plane without a
\* framebuffer, a scaled primary plane, an overlay alone.
BasicPlaneInputs ==
    { <<>>,
      <<[handle |-> "primary", config |-> <<FullConfig>>]>>,
      <<[handle |-> "primary", config |-> <<FullConfig>>],
        [handle |-> "overlay", config |-> <<FullConfig>>]>>,
      <<[handle |-> "primary", config |-> <<>>]>>,
      <<[handle |-> "primary", config |-> <<[FullConfig EXCEPT !.dst_size = 2]>>]>>,
      <<[handle |-> "overlay", config |-> <<FullConfig>>]>> }

NextPipeline ==
    \/ \E c \in Connectors : add_connector(c)
    \/ \E c \in Connectors : remove_connector(c)
    \/ \E l \in ConnectorLists(MaxConnectorList) : set_connectors(l)
    \/ \E m \in Modes : use_mode(m)
    \/ \E p \in Planes : clear_plane(p)
    \/ \E planes \in BasicPlaneInputs, allow_modeset \in BOOLEAN :
          test_state(planes, allow_modeset)
    \/ \E planes \in BasicPlaneInputs, event \in BOOLEAN : commit(planes, event)
    \/ \E planes \in BasicPlaneInputs, event \in BOOLEAN : page_flip(planes, event)
    \/ reset_state
    \/ PauseSession
    \/ ActivateSession
    \/ ForeignModeset

SpecPipeline == Init /\ [][NextPipeline]_vars

NextClaims ==
    \/ \E s \in Surfaces : CreateSurface(s)
    \/ \E s \in Surfaces : DropSurface(s)
    \/ \E s \in Surfaces, p \in DevicePlanes : claim_plane(s, p)
    \/ \E s \in Surfaces : Storage_lock(s)
    \/ \E s \in Surfaces : Storage_lookup(s)
    \/ \E s \in Surfaces : Storage_update(s)
    \/ \E k \in TokenKinds : PlaneClaim_drop(k)

\* The pipeline at rest while the registry is exercised.
Idle ==
    /\ internal = "Atomic"
    /\ kernel = [mode |-> "m1", connectors |-> {}]

InitIdle == Init /\ Idle

SpecClaims == InitIdle /\ [][NextClaims]_vars

\* Two surfaces, nothing claimed, and each calling claim_plane once.
InitRace ==
    /\ InitPipeline
    /\ Idle
    /\ alive = Surfaces
    /\ storage = <<>>
    /\ tokens = [k \in TokenKinds |-> 0]
    /\ lock = "free"
    /\ pc = [s \in Surfaces |-> "idle"]
    /\ call = [s \in Surfaces |-> NoCall]
    /\ result = [s \in Surfaces |-> "-"]
    /\ InitDamage

NextRace ==
    \/ \E s \in Surfaces, p \in DevicePlanes : call[s] = NoCall /\ claim_plane(s, p)
    \/ \E s \in Surfaces : Storage_lock(s)
    \/ \E s \in Surfaces : Storage_lookup(s)
    \/ \E s \in Surfaces : Storage_update(s)

SpecRace == InitRace /\ [][NextRace]_vars

\* Behaviours in which the operation before the last one is recorded: the
\* pipeline driven with the full-surface primary plane only.
InitSequences ==
    /\ InitSurface
    /\ InitClaims
    /\ InitDamage
    /\ hist = [op |-> "new", arg |-> <<>>, ret |-> Ok, pending |-> pending]
    /\ driver = DefaultDriver

FullPlanes == <<[handle |-> "primary", config |-> <<FullConfig>>]>>

\* Connector lists: empty, single, in both orders, with a repetition, with a
\* connector that no encoder reaches.
BasicConnectorLists ==
    { <<>>, <<"c1">>, <<"c2">>, <<"c1", "c2">>, <<"c2", "c1">>, <<"c1", "c1">>,
      <<"c1", "c3">> }

NextSequences ==
    \/ \E c \in Connectors : add_connector(c)
    \/ \E c \in Connectors : remove_connector(c)
    \/ \E l \in BasicConnectorLists : set_connectors(l)
    \/ \E m \in Modes : use_mode(m)
    \/ \E allow_modeset \in BOOLEAN : test_state(FullPlanes, allow_modeset)
    \/ commit(FullPlanes, TRUE)
    \/ reset_state
    \/ PauseSession
    \/ ActivateSession
    \/ ForeignModeset

SpecSequences == InitSequences /\ [][NextSequences]_vars

\* A legacy surface driven with every plane sequence of PlaneInputs.
InitLegacy == Init /\ internal = "Legacy"

NextLegacy ==
    \/ \E m \in Modes : use_mode(m)
    \/ \E p \in Planes : clear_plane(p)
    \/ \E planes \in PlaneInputs, allow_modeset \in BOOLEAN :
          test_state(planes, allow_modeset)
    \/ \E planes \in PlaneInputs, event \in BOOLEAN : commit(planes, event)
    \/ \E planes \in PlaneInputs, event \in BOOLEAN : page_flip(planes, event)
    \/ PauseSession
    \/ ActivateSession

SpecLegacy == InitLegacy /\ [][NextLegacy]_vars

\* Damage clips made, cloned and dropped next to a surface at rest.
NextDamage ==
    \/ \E src \in SrcRects, dst \in DstRects, damage \in DamageLists :
          from_damage(src, dst, damage)
    \/ \E id \in BlobIds : PlaneDamageClips_clone(id)
    \/ \E id \in BlobIds : PlaneDamageClips_drop(id)

SpecDamage == InitIdle /\ [][NextDamage]_vars

\* The formats of each plane queried on a surface at rest, for every driver
\* of Drivers.
InitFormats ==
    /\ InitSurface
    /\ Idle
    /\ hist = NoHistory
    /\ driver \in Drivers
    /\ InitClaims
    /\ InitDamage

NextFormats == \E p \in Planes : supported_formats(p)

SpecFormats == InitFormats /\ [][NextFormats]_vars

Next == NextPipeline \/ NextClaims \/ NextDamage \/ NextFormats

Spec == Init /\ [][Next]_vars

-----------------------------------------------------------------------------
(* Properties of the pipeline, checked under SpecPipeline.                   *)

Mutators == {"add_connector", "remove_connector", "set_connectors", "use_mode"}

Valid(snapshot) ==
    \A c \in snapshot.connectors :
        encoder_compatible(c) /\ snapshot.mode \in connector_modes(c)

C2_FailedCommitKeepsCurrent ==
    (op = "commit" /\ ret # Ok) => current = prev.current

\* A commit refused with EBUSY while changes were pending.
C2_Witness ==
    /\ op = "commit" /\ ret = Err("AccessRetryLater")
    /\ prev.pending # prev.current

C8_CommittedConnectorsValid ==
    (op = "commit" /\ ret = Ok) => Valid(current)

\* A successful commit that changed the mode of an attached connector.
C8_Witness ==
    /\ op = "commit" /\ ret = Ok
    /\ current.connectors # {}
    /\ current.mode # prev.current.mode

\* C9: set_connectors(list) fails and leaves the pending snapshot as it was
\* if some connector of the list has no compatible encoder or does not
\* support the pending mode; otherwise it succeeds and the pending connectors
\* are exactly the connectors of the list.
C9_SetConnectorsAllOrNothing ==
    op = "set_connectors" =>
        LET list == arg[1]
            bad  == \E i \in DOMAIN list :
                        \/ ~encoder_compatible(list[i])
                        \/ prev.pending.mode \notin connector_modes(list[i])
        IN  IF bad
            THEN ret # Ok /\ pending = prev.pending
            ELSE /\ ret = Ok
                 /\ pending.connectors = Range(list)
                 /\ pending.mode = prev.pending.mode

\* A refused list whose first connector was acceptable and new.
C9_Witness ==
    /\ op = "set_connectors" /\ ret # Ok
    /\ Len(arg[1]) > 1
    /\ check_connector(arg[1][1], pending.mode) = Ok
    /\ arg[1][1] \notin prev.pending.connectors

\* C10: use_mode(m) stores m as the pending mode only if every pending
\* connector supports m; otherwise it returns the mode-unsupported error and
\* leaves the pending mode, the pending connectors and the current snapshot
\* as they were.
C10_UseModeChecksConnectors ==
    op = "use_mode" =>
        LET m == arg[1]
        IN  IF \A c \in prev.pending.connectors : m \in connector_modes(c)
            THEN /\ ret = Ok
                 /\ pending = [prev.pending EXCEPT !.mode = m]
                 /\ current = prev.current
            ELSE /\ ret = Err("ModeUnsupported")
                 /\ pending = prev.pending
                 /\ current = prev.current

\* A refused use_mode of a mode other than the pending one.
C10_Witness ==
    /\ op = "use_mode" /\ ret = Err("ModeUnsupported")
    /\ arg[1] # pending.mode

-----------------------------------------------------------------------------
(* Properties of the plane claim registry, checked under SpecClaims (C5:     *)
(* under SpecRace).                                                          *)

\* The step in which the claim_plane call of surface s returns.
Returns(s) == pc[s] = "looked" /\ pc'[s] = "idle"

\* Some surface of another CRTC holds a token for the plane.
HeldElsewhere(s, plane) ==
    \E t \in Surfaces : crtc(t) # crtc(s) /\ Held(t, plane) > 0

\* C4: no plane is claimed for two CRTCs at once: all live tokens for a plane
\* were obtained by surfaces of one CRTC, which is the CRTC the registry maps
\* the plane to; and while a token that a surface obtained for a plane is
\* alive, every claim_plane of that plane on a surface of another CRTC
\* returns None.
C4_PlaneExclusive ==
    /\ [](\A k \in TokenKinds : tokens[k] > 0 =>
            /\ k.asked \in DOMAIN storage
            /\ storage[k.asked].crtc = crtc(k.by))
    /\ [][\A s \in Surfaces :
            (Returns(s) /\ HeldElsewhere(s, call[s].asked))
                => result'[s] = "None"]_vars

\* Surface B was refused a plane that surface A holds a token for.
C4_Witness ==
    /\ result["B"] = "None"
    /\ pc["B"] = "idle"
    /\ Held("A", call["B"].asked) > 0

\* C5: of two concurrent claim_plane calls for the same unclaimed plane on
\* surfaces of different CRTCs, whatever the interleaving of their steps,
\* exactly one returns a token and the other returns None.
C5_RaceHasOneWinner ==
    \A s, t \in Surfaces :
        (/\ crtc(s) # crtc(t)
         /\ result[s] # "-" /\ result[t] # "-"
         /\ call[s].asked = call[t].asked)
            => (result[s] = "Some") # (result[t] = "Some")

\* Both calls have returned, and B's was waiting while A held the mutex.
C5_Witness ==
    /\ result["A"] = "Some" /\ result["B"] = "None"
    /\ call["A"].asked = call["B"].asked
    /\ call["A"].raced

\* C6: the registry has an entry for a plane exactly while live tokens for
\* it exist, and the entry's count is their number; a claim_plane returns a
\* token whenever its surface already holds one for the plane or no token
\* for the plane is alive, whichever CRTC asks.
C6_RefcountMatchesTokens ==
    /\ [](\A p \in DevicePlanes :
            /\ (p \in DOMAIN storage) <=> (Live(p) > 0)
            /\ (p \in DOMAIN storage) => storage[p].count = Live(p))
    /\ [][\A s \in Surfaces :
            (/\ Returns(s)
             /\ (Held(s, call[s].asked) > 0 \/ Live(call[s].asked) = 0))
                => result'[s] = "Some"]_vars

\* Surface A was granted the plane and dropped its tokens; surface B holds
\* two tokens for the plane, counted as two.
C6_Witness ==
    \E p \in DevicePlanes :
        /\ call["A"].asked = p /\ result["A"] = "Some" /\ Held("A", p) = 0
        /\ call["B"].asked = p /\ result["B"] = "Some" /\ Held("B", p) = 2
        /\ storage[p].count = 2

-----------------------------------------------------------------------------
(* Properties of two operations in a row, checked under SpecSequences.       *)

\* The last two operations were add_connector(c) and remove_connector(c).
AddThenRemove ==
    /\ op = "remove_connector"
    /\ hist.op = "add_connector"
    /\ hist.arg = arg

\* C11 as stated: after add_connector(c) followed by remove_connector(c) the
\* pending connectors are the ones from before the add_connector call.
C11_AddRemoveRestores ==
    AddThenRemove => pending.connectors = hist.pending.connectors

\* C11, amended: after add_connector(c) followed by remove_connector(c) the
\* pending connectors are the ones from before the add_connector call without
\* c: they are restored if c was not among them, and c is gone if it was.
\* The pending mode is the one from before.
C11_AddRemoveRestoresUnlessPresent ==
    AddThenRemove =>
        /\ pending.mode = hist.pending.mode
        /\ IF arg[1] \in hist.pending.connectors
           THEN pending.connectors = hist.pending.connectors \ {arg[1]}
           ELSE pending.connectors = hist.pending.connectors

\* A connector that was not pending was added and removed again, next to
\* another pending connector.
C11_Witness ==
    /\ AddThenRemove
    /\ hist.ret = Ok
    /\ arg[1] \notin hist.pending.connectors
    /\ pending.connectors # {}

\* The last two operations were set_connectors(X) and set_connectors(X).
SetTwice ==
    /\ op = "set_connectors"
    /\ hist.op = "set_connectors"
    /\ hist.arg = arg

\* C12: a set_connectors(X) that directly follows a set_connectors(X) changes
\* neither the pending snapshot nor the value of commit_pending(), and
\* returns what the first one returned.
C12_SetConnectorsIdempotent ==
    [][(op = "set_connectors" /\ op' = "set_connectors" /\ arg' = arg) =>
          /\ pending' = pending
          /\ commit_pending' = commit_pending
          /\ ret' = ret]_vars

\* The first set_connectors(X) replaced the pending connectors, the second
\* one found them in place; the change is still to be committed.
C12_Witness ==
    /\ SetTwice
    /\ ret = Ok
    /\ hist.pending.connectors # pending.connectors
    /\ pending.connectors = Range(arg[1])
    /\ commit_pending

TestAfterUseMode ==
    /\ internal = "Atomic"
    /\ op = "test_state" /\ arg = <<FullPlanes, FALSE>>
    /\ hist.op = "use_mode" /\ hist.ret = Ok
    /\ hist.arg[1] # current.mode

\* test_state on an atomic surface leaves both snapshots as they were.
TestStateChangesNothing ==
    (internal = "Atomic" /\ op = "test_state") =>
        (pending = prev.pending /\ current = prev.current)

\* C14 as stated: test_state on an atomic surface changes neither snapshot;
\* after use_mode(newMode), newMode not the current mode,
\* test_state(primary with framebuffer, allow_modeset = false) returns the
\* test-failed error and commit_pending() is still true.
C14_TestFailsAfterUseMode ==
    /\ TestStateChangesNothing
    /\ TestAfterUseMode => (ret = Err("TestFailed") /\ commit_pending)

\* C14, amended: test_state on an atomic surface changes neither snapshot,
\* whatever its result; after use_mode(newMode), newMode not the current
\* mode, commit_pending() is still true after
\* test_state(primary with framebuffer, allow_modeset = false), which returns
\* the test-failed error if the session is active and the CRTC is in the
\* state of the current snapshot, and the device-inactive error if the
\* session is paused.
C14_TestFailsAfterUseModeWhileActive ==
    /\ TestStateChangesNothing
    /\ TestAfterUseMode =>
         /\ commit_pending
         /\ (active /\ kernel = current) => ret = Err("TestFailed")
         /\ ~active => ret = Err("DeviceInactive")

\* The mode was changed on an active session and the test without modeset
\* refused it.
C14_Witness ==
    /\ TestAfterUseMode
    /\ active /\ kernel = current
    /\ ret = Err("TestFailed")
    /\ pending.mode # current.mode

-----------------------------------------------------------------------------
(* Properties of the facade on a legacy surface, checked under SpecLegacy.   *)

\* The kernel calls of the legacy engine.
EngineCalls == {"SetCrtc", "PageFlip", "VblankRequest"}

\* The last operation did not enter the legacy engine.
EngineNotEntered == Range(calls) \cap EngineCalls = {}

SnapshotsUnchanged == pending = prev.pending /\ current = prev.current

\* A plane sequence the legacy engine can show: its first plane state is for
\* a primary plane and has a configuration without offset on the CRTC,
\* without crop, scale or transform.
LegacyAcceptable(planes) ==
    /\ planes # <<>>
    /\ plane_type(planes[1].handle) = "Primary"
    /\ planes[1].config # <<>>
    /\ LET config == planes[1].config[1]
       IN  /\ config.dst_loc = 0
           /\ config.src_loc = 0
           /\ config.src_size = 2 * config.dst_size
           /\ config.transform = "Normal"

\* The last operation was test_state(planes, allow_modeset = false) on a
\* legacy surface.
LegacyTestWithoutModeset ==
    internal = "Legacy" /\ op = "test_state" /\ arg[2] = FALSE

LegacyPlanesCall ==
    internal = "Legacy" /\ op \in {"test_state", "commit", "page_flip"}

\* C16: on a legacy surface test_state, commit and page_flip reach the legacy
\* engine only with a sequence of exactly one plane state, for a primary
\* plane; a sequence of no or of two or more plane states is rejected with
\* an error and does not reach the engine.
C16_LegacyExactlyOnePlane ==
    LegacyPlanesCall =>
        /\ ~EngineNotEntered =>
              (Len(arg[1]) = 1 /\ plane_type(arg[1][1].handle) = "Primary")
        /\ Len(arg[1]) # 1 => (ret # Ok /\ EngineNotEntered)

\* The first plane state of the sequence is for the primary plane and has a
\* configuration with an offset on the CRTC, a crop offset, a source size
\* other than the destination size, or a transform.
UnsupportedPrimary(planes) ==
    /\ planes # <<>>
    /\ plane_type(planes[1].handle) = "Primary"
    /\ planes[1].config # <<>>
    /\ ~LegacyAcceptable(planes)

C18_LegacyClearPlaneFails ==
    (internal = "Legacy" /\ op = "clear_plane") =>
        /\ ret = ErrPlane("NonPrimaryPlane", arg[1])
        /\ calls = <<>>
        /\ SnapshotsUnchanged

\* clear_plane of an overlay plane, refused while a mode change was pending.
C18_Witness ==
    /\ internal = "Legacy" /\ op = "clear_plane"
    /\ arg[1] = "overlay"
    /\ ret = ErrPlane("NonPrimaryPlane", "overlay")
    /\ pending # current

-----------------------------------------------------------------------------
(* Properties of the damage clips, checked under SpecDamage.                 *)

\* C19: from_damage with no damage rectangle returns Ok(None), issues no
\* create-blob call and creates no blob; with one or more rectangles it
\* issues exactly one create-blob call and returns either Ok(Some(handle)),
\* the handle being the only one of a blob that holds one drm_mode_rect for
\* each rectangle, or the error of the call, and then there is no new blob
\* and no handle.
C19_FromDamage ==
    /\ [](op = "from_damage" =>
            IF arg[3] = <<>>
            THEN ret = <<"Ok", "None">> /\ calls = <<>>
            ELSE /\ calls = <<"CreatePropertyBlob">>
                 /\ \/ /\ Len(ret) = 3 /\ ret[1] = "Ok" /\ ret[2] = "Some"
                       /\ ret[3] \in DOMAIN blobs
                       /\ inner[ret[3]] = 1
                       /\ Len(blobs[ret[3]]) = Len(arg[3])
                    \/ /\ Len(ret) = 2 /\ ret[1] = "Err"
                       /\ ret[2] \in SystemErrors)
    /\ [][(op' = "from_damage" /\ (arg'[3] = <<>> \/ ret'[1] = "Err")) =>
              (blobs' = blobs /\ inner' = inner)]_vars

\* Two rectangles became a second blob.
C19_Witness ==
    /\ op = "from_damage"
    /\ Len(arg[3]) = 2
    /\ ret[1] = "Ok" /\ ret[2] = "Some"
    /\ Cardinality(DOMAIN blobs) = 2
    /\ Len(blobs[ret[3]]) = 2

-----------------------------------------------------------------------------
(* Claims about the formats of a plane, checked under SpecFormats.           *)

\* supported_formats has returned a set of formats.
FormatsReturned == op = "supported_formats" /\ ret[1] = "Ok"

\* The blob advertises the pair: some entry has the pair's modifier, and a set
\* bit j of its mask with the pair's code at index j + offset of the array.
Advertised(f, blob) ==
    /\ blob.present
    /\ \E i \in DOMAIN blob.modifiers :
          /\ Modifier_from(blob.modifiers[i].modifier) = f.modifier
          /\ \E j \in blob.modifiers[i].formats :
                /\ j + blob.modifiers[i].offset + 1 \in DOMAIN blob.formats
                /\ Fourcc_try_from(blob.formats[j + blob.modifiers[i].offset + 1])
                      = <<f.code>>

\* C20: every pair of the set returned by supported_formats(p) has the
\* modifier INVALID, or is advertised by the plane's IN_FORMATS blob, or has
\* the modifier LINEAR on a cursor plane.
C20_FormatsAccountedFor ==
    FormatsReturned =>
        \A f \in ret[2] :
            \/ f.modifier = "Invalid"
            \/ Advertised(f, driver.in_formats)
            \/ plane_type(arg[1]) = "Cursor" /\ f.modifier = "Linear"

\* A set returned with a pair without a modifier next to a pair decoded from
\* the blob at a non-zero offset.
C20_Witness ==
    /\ FormatsReturned
    /\ [code |-> "Argb8888", modifier |-> "Invalid"] \in ret[2]
    /\ [code |-> "Xrgb8888", modifier |-> "Other"] \in ret[2]

-----------------------------------------------------------------------------
(* Claims about the order of validation and kernel calls, checked under      *)
(* SpecPipeline.                                                             *)

\* The error kinds that report a rejected argument, not a failed ioctl.
ValidationErrors ==
    {"NoPlane", "NonPrimaryPlane", "NoFramebuffer", "UnsupportedPlaneConfiguration",
     "IncompatibleEncoder", "ModeUnsupported"}

\* The last operation is one that validates its arguments itself.
ValidatingCall ==
    \/ op \in {"add_connector", "set_connectors", "use_mode"}
    \/ LegacyPlanesCall

\* C21: whenever add_connector, set_connectors, use_mode, or test_state,
\* commit or page_flip on a legacy surface returns a validation error, the
\* operation has issued no kernel call before returning it.
C21_ValidationBeforeKernelCalls ==
    (ValidatingCall /\ ret[1] \in ValidationErrors) => calls = <<>>

-----------------------------------------------------------------------------
(* Claims about the default and the cursor's formats, checked under          *)
(* SpecFormats.                                                              *)

\* The driver does not report the AddFB2Modifiers capability as 1.
LacksModifiers == driver.capability # "Ok1"

\* C22: on a driver lacking the modifier capability the set returned by
\* supported_formats for a cursor plane contains (f, LINEAR) for every
\* (f, INVALID) it contains, also when the plane's format list yields no
\* format and the ARGB8888 default is used.
C22_CursorLinearFallback ==
    (FormatsReturned /\ LacksModifiers /\ plane_type(arg[1]) = "Cursor") =>
        \A f \in ret[2] :
            f.modifier = "Invalid" =>
                [code |-> f.code, modifier |-> "Linear"] \in ret[2]

\* The formats the plane's format list yields.
Listed == plane_formats(driver.formats)

\* The formats decoded from the IN_FORMATS blob, where it is read.
Decoded ==
    IF driver.capability = "Ok1" /\ driver.in_formats.present
    THEN in_formats_pairs(driver.in_formats)
    ELSE {}

DefaultFormat == [code |-> "Argb8888", modifier |-> "Invalid"]

\* C23: a set returned by supported_formats(p) is not empty, and it holds
\* (ARGB8888, INVALID) as a default, that is without the format list or the
\* IN_FORMATS blob having produced it, only when the two produced no format
\* at all; then the default is all it holds.
C23_DefaultOnlyWhenEmpty ==
    FormatsReturned =>
        /\ ret[2] # {}
        /\ (DefaultFormat \in ret[2] /\ DefaultFormat \notin Listed \cup Decoded)
              => Listed \cup Decoded = {}
        /\ Listed \cup Decoded = {} => ret[2] = {DefaultFormat}

\* The default returned for a plane whose format list and blob hold unknown
\* codes only.
C23_Witness ==
    /\ FormatsReturned
    /\ driver.formats = <<"junk">>
    /\ driver.capability = "Ok1"
    /\ driver.in_formats.present /\ driver.in_formats.modifiers # <<>>
    /\ ret[2] = {DefaultFormat}

-----------------------------------------------------------------------------
(* Claims about the life of a damage blob, checked under SpecDamage.         *)

\* This step drops the last handle of blob id.
LastHandleDropped(id) ==
    op' = "drop" /\ arg' = <<id>> /\ inner[id] = 1 /\ inner'[id] = 0

\* C24: the destroy call for a blob made by from_damage is issued once, in
\* the step that drops the last of its handles (the original or a clone) and
\* in no other step; while a handle is alive the blob exists and no destroy
\* call has been issued for it; the drop returns normally whether or not the
\* destroy call succeeded.
C24_DestroyedOnceByLastHandle ==
    /\ [](\A id \in BlobIds :
            /\ destroyed[id] <= 1
            /\ inner[id] > 0 => (id \in DOMAIN blobs /\ destroyed[id] = 0)
            /\ (id \in DOMAIN blobs /\ inner[id] = 0) => destroyed[id] = 1)
    /\ [][\A id \in BlobIds :
            /\ destroyed'[id] > destroyed[id] <=> LastHandleDropped(id)
            /\ LastHandleDropped(id) =>
                  (calls' = <<"DestroyPropertyBlob">> /\ ret' = Ok)
            /\ (id \in DOMAIN blobs /\ id \notin DOMAIN blobs') =>
                  LastHandleDropped(id)]_vars

\* The last handle of a blob was dropped and the destroy call failed: the
\* drop returned, the blob is still there; the other blob has two handles and
\* was not destroyed.
C24_Witness ==
    /\ op = "drop" /\ ret = Ok
    /\ calls = <<"DestroyPropertyBlob">>
    /\ inner[arg[1]] = 0
    /\ arg[1] \in DOMAIN blobs
    /\ destroyed[arg[1]] = 1
    /\ \E id \in BlobIds : inner[id] = 2 /\ destroyed[id] = 0

-----------------------------------------------------------------------------
(* Claims about a paused session, checked under SpecPipeline.                *)

\* The last operation is one of the plane operations, made while the session
\* was paused.
PausedPlaneCall ==
    ~active /\ op \in {"test_state", "commit", "page_flip", "clear_plane"}

\* A successful reset_state has left both snapshots equal to the kernel's
\* state of the pipeline.
ResetResynchronizes ==
    (op = "reset_state" /\ ret = Ok) =>
        (active /\ current = kernel /\ pending = kernel)

=====
